---- MODULE Spec2Model ----
(***************************************************************************)
(* Model of gn's get_target_outputs() built-in function                    *)
(* (src/gn/function_get_target_outputs.cc).                                *)
(*                                                                         *)
(* One file's evaluation is a sequence of declarations, which append items *)
(* to the scope's item collector, interleaved with get_target_outputs()    *)
(* calls.  Strings and paths are sequences of one-character strings so     *)
(* that label parsing and template expansion are real computations.        *)
(***************************************************************************)
EXTENDS Naturals, Sequences, FiniteSets

VARIABLES scope, lastCall

vars == <<scope, lastCall>>

\* Largest number of items declared in one file's evaluation.
MaxItems == 2

----------------------------------------------------------------------------
\* Character-sequence helpers.

RECURSIVE LastIndexOf(_, _, _)
\* Index of the last occurrence of ch in s[1..i], 0 when there is none.
LastIndexOf(s, ch, i) ==
  IF i = 0 THEN 0
  ELSE IF s[i] = ch THEN i
  ELSE LastIndexOf(s, ch, i - 1)

RECURSIVE FirstIndexOf(_, _, _)
\* Index of the first occurrence of ch in s[i..Len(s)], 0 when there is none.
FirstIndexOf(s, ch, i) ==
  IF i > Len(s) THEN 0
  ELSE IF s[i] = ch THEN i
  ELSE FirstIndexOf(s, ch, i + 1)

----------------------------------------------------------------------------
\* Values of the build language.

NoneValue == [type |-> "NONE", string_value |-> <<>>, list_value |-> <<>>]

StringValue(s) == [type |-> "STRING", string_value |-> s, list_value |-> <<>>]

IntegerValue == [type |-> "INTEGER", string_value |-> <<>>, list_value |-> <<>>]

ListValue(l) == [type |-> "LIST", string_value |-> <<>>, list_value |-> l]

\* Errors: Err() is "no error"; Err(origin, message, help) sets has_error.
NoHelp == [label_name |-> <<>>, text |-> "", type_name |-> ""]

NoErr == [has_error |-> FALSE, message |-> "", help |-> NoHelp]

Err(message, help) == [has_error |-> TRUE, message |-> message, help |-> help]

----------------------------------------------------------------------------
\* Labels.

NullLabel == [is_null |-> TRUE, dir |-> <<>>, name |-> <<>>, toolchain |-> <<>>]

MakeLabel(dir, name, toolchain) ==
  [is_null |-> FALSE, dir |-> dir, name |-> name, toolchain |-> toolchain]

\* Label::Resolve: parses "dir:name" against the current directory and the
\* current toolchain.  An empty directory part means the current directory,
\* a "//" prefix an absolute directory, anything else is relative to the
\* current directory.  A missing ":name" takes the last directory component.
\* Returns the label and the error (a null label when the input is bad).
Resolve(current_dir, current_toolchain, input) ==
  IF input.type # "STRING"
  THEN [label |-> NullLabel, err |-> Err("Label is not a string.", NoHelp)]
  ELSE IF Len(input.string_value) = 0
  THEN [label |-> NullLabel, err |-> Err("Label can't be empty.", NoHelp)]
  ELSE
    LET s       == input.string_value
        colon   == FirstIndexOf(s, ":", 1)
        dirpart == IF colon = 0 THEN s ELSE SubSeq(s, 1, colon - 1)
        absdir  == Len(dirpart) >= 2 /\ dirpart[1] = "/" /\ dirpart[2] = "/"
        dir     == IF Len(dirpart) = 0 THEN current_dir
                   ELSE IF absdir THEN dirpart \o <<"/">>
                   ELSE current_dir \o dirpart \o <<"/">>
        slash   == LastIndexOf(dirpart, "/", Len(dirpart))
        name    == IF colon = 0
                   THEN SubSeq(dirpart, slash + 1, Len(dirpart))
                   ELSE SubSeq(s, colon + 1, Len(s))
    IN IF Len(name) = 0
       THEN [label |-> NullLabel,
             err |-> Err("This doesn't look like a label.", NoHelp)]
       ELSE [label |-> MakeLabel(dir, name, current_toolchain), err |-> NoErr]

\* Label::GetUserVisibleName(false): "//dir:name" without the toolchain.
GetUserVisibleName(label) ==
  SubSeq(label.dir, 1, Len(label.dir) - 1) \o <<":">> \o label.name

----------------------------------------------------------------------------
\* Substitution patterns and source expansion.

Literal(s) == [type |-> "literal", literal |-> s]

SourceNamePart == [type |-> "source_name_part", literal |-> <<>>]

\* {{source_name_part}}: the file name without directory and extension.
NamePart(source) ==
  LET slash == LastIndexOf(source, "/", Len(source))
      file  == SubSeq(source, slash + 1, Len(source))
      dot   == LastIndexOf(file, ".", Len(file))
  IN IF dot = 0 THEN file ELSE SubSeq(file, 1, dot - 1)

RECURSIVE ApplyPatternToSource(_, _)
\* SubstitutionWriter::ApplyPatternToSource: expands one pattern against
\* one source file.
ApplyPatternToSource(pattern, source) ==
  IF Len(pattern) = 0 THEN <<>>
  ELSE (IF pattern[1].type = "literal" THEN pattern[1].literal
        ELSE NamePart(source))
       \o ApplyPatternToSource(Tail(pattern), source)

RECURSIVE ApplyListToSource(_, _)
\* Every pattern of the list expanded against one source, in list order.
ApplyListToSource(list, source) ==
  IF Len(list) = 0 THEN <<>>
  ELSE <<ApplyPatternToSource(list[1], source)>>
       \o ApplyListToSource(Tail(list), source)

RECURSIVE ApplyListToSources(_, _)
\* The per-source expansions concatenated in source order.
ApplyListToSources(list, sources) ==
  IF Len(sources) = 0 THEN <<>>
  ELSE ApplyListToSource(list, sources[1])
       \o ApplyListToSources(list, Tail(sources))

RECURSIVE GetListAsSourceFiles(_)
\* The patterns of an explicit output list taken as they stand.
GetListAsSourceFiles(list) ==
  IF Len(list) = 0 THEN <<>>
  ELSE <<ApplyPatternToSource(list[1], <<>>)>>
       \o GetListAsSourceFiles(Tail(list))

\* ActionValues::GetOutputsAsSourceFiles: per-source template expansion for
\* action_foreach, the explicit output list for the other kinds.
GetOutputsAsSourceFiles(target) ==
  IF target.output_type = "ACTION_FOREACH"
  THEN ApplyListToSources(target.outputs, target.sources)
  ELSE GetListAsSourceFiles(target.outputs)

----------------------------------------------------------------------------
\* Items.

\* Item::AsTarget: non-null only for targets.
AsTarget(item) == item.kind = "Target"

\* Item::GetItemTypeName.
GetItemTypeName(item) ==
  CASE item.kind = "Target"    -> "target"
    [] item.kind = "Config"    -> "config"
    [] item.kind = "Toolchain" -> "toolchain"
    [] item.kind = "Pool"      -> "pool"

----------------------------------------------------------------------------
\* The bounded universe of one file's evaluation.

DirD == <<"/", "/", "d", "/">>

DefaultToolchain == <<"/", "/", "t", ":", "c">>

LabelA == MakeLabel(DirD, <<"a">>, DefaultToolchain)

LabelB == MakeLabel(DirD, <<"b">>, DefaultToolchain)

Labels == {LabelA, LabelB}

\* Explicit outputs "//o/x" and "//o/y".
OutX == <<Literal(<<"/", "/", "o", "/", "x">>)>>

OutY == <<Literal(<<"/", "/", "o", "/", "y">>)>>

\* Output templates "//o/{{source_name_part}}.o" and ".h".
TemplateO ==
  <<Literal(<<"/", "/", "o", "/">>), SourceNamePart, Literal(<<".", "o">>)>>

TemplateH ==
  <<Literal(<<"/", "/", "o", "/">>), SourceNamePart, Literal(<<".", "h">>)>>

\* Sources "//d/a.c", "//d/b.c" and "//e/a.c".
SrcA == <<"/", "/", "d", "/", "a", ".", "c">>

SrcB == <<"/", "/", "d", "/", "b", ".", "c">>

SrcEA == <<"/", "/", "e", "/", "a", ".", "c">>

ExplicitOutputLists == {<<OutX, OutX>>, <<OutY, OutX>>}

TemplateLists == {<<TemplateO>>, <<TemplateH, TemplateO>>}

SourceLists == {<<SrcB, SrcA>>, <<SrcA, SrcEA>>}

ExplicitKinds == {"ACTION", "COPY_FILES", "GENERATED_FILE"}

UnsupportedKinds ==
  {"SOURCE_SET", "GROUP", "EXECUTABLE", "SHARED_LIBRARY", "STATIC_LIBRARY"}

NonTargetKinds == {"Config", "Toolchain", "Pool"}

MakeItem(label, kind, output_type, outputs, sources) ==
  [label |-> label, kind |-> kind, output_type |-> output_type,
   outputs |-> outputs, sources |-> sources]

Items ==
  {MakeItem(l, "Target", t, o, <<>>) :
     l \in Labels, t \in ExplicitKinds, o \in ExplicitOutputLists}
  \cup {MakeItem(l, "Target", "ACTION_FOREACH", o, s) :
     l \in Labels, o \in TemplateLists, s \in SourceLists}
  \cup {MakeItem(l, "Target", t, <<>>, <<>>) :
     l \in Labels, t \in UnsupportedKinds}
  \cup {MakeItem(l, k, "UNKNOWN", <<>>, <<>>) :
     l \in Labels, k \in NonTargetKinds}

NoItem == MakeItem(NullLabel, "None", "UNKNOWN", <<>>, <<>>)

\* Argument lists of a call: ":a", ":b", "//d:a", the malformed ":" and a
\* non-string argument, plus calls with no and with two arguments.
ArgA == StringValue(<<":", "a">>)

ArgB == StringValue(<<":", "b">>)

ArgAbsA == StringValue(<<"/", "/", "d", ":", "a">>)

ArgBad == StringValue(<<":">>)

ArgLists ==
  {<<>>, <<ArgA>>, <<ArgB>>, <<ArgAbsA>>, <<ArgBad>>, <<IntegerValue>>,
   <<ArgA, ArgB>>}

----------------------------------------------------------------------------
\* get_target_outputs.

FindItemInverted(items, label, i) ==
  LET miss == {j \in i..Len(items) : items[j].label # label}
  IN IF miss = {} THEN [found |-> "none", item |-> NoItem]
     ELSE LET j == CHOOSE k \in miss : \A m \in miss : k <= m
          IN IF AsTarget(items[j])
             THEN [found |-> "target", item |-> items[j]]
             ELSE [found |-> "mismatch", item |-> items[j]]

FindItemLast(items, label, i) ==
  LET hits == {j \in i..Len(items) : items[j].label = label}
  IN IF hits = {} THEN [found |-> "none", item |-> NoItem]
     ELSE LET j == CHOOSE k \in hits : \A m \in hits : k >= m
          IN IF AsTarget(items[j])
             THEN [found |-> "target", item |-> items[j]]
             ELSE [found |-> "mismatch", item |-> items[j]]

RECURSIVE FindItemSkipNonTargets(_, _, _)
FindItemSkipNonTargets(items, label, i) ==
  IF i > Len(items) THEN [found |-> "none", item |-> NoItem]
  ELSE IF items[i].label # label \/ ~AsTarget(items[i])
  THEN FindItemSkipNonTargets(items, label, i + 1)
  ELSE [found |-> "target", item |-> items[i]]

RECURSIVE FindItem(_, _, _)
\* The scan of the item collector from index i: items with another label
\* are skipped, the first item with the label ends the scan, as a type
\* mismatch when it is not a target.
FindItem(items, label, i) ==
  IF i > Len(items) THEN [found |-> "none", item |-> NoItem]
  ELSE IF items[i].label # label THEN FindItem(items, label, i + 1)
  ELSE IF ~AsTarget(items[i]) THEN [found |-> "mismatch", item |-> items[i]]
  ELSE [found |-> "target", item |-> items[i]]

IsSupportedOrSourceSet(output_type) ==
  output_type \in
    {"ACTION", "COPY_FILES", "ACTION_FOREACH", "GENERATED_FILE", "SOURCE_SET"}

IsSupportedOrGroup(output_type) ==
  output_type \in
    {"ACTION", "COPY_FILES", "ACTION_FOREACH", "GENERATED_FILE", "GROUP"}

\* The output types whose outputs are computed.
IsSupported(output_type) ==
  output_type \in {"ACTION", "COPY_FILES", "ACTION_FOREACH", "GENERATED_FILE"}

RECURSIVE ConvertToValuesUnique(_)
ConvertToValuesUnique(files) ==
  IF Len(files) = 0 THEN <<>>
  ELSE LET rest == ConvertToValuesUnique(SubSeq(files, 1, Len(files) - 1))
           last == files[Len(files)]
       IN IF \E i \in 1..(Len(files) - 1) : files[i] = last
          THEN rest
          ELSE rest \o <<StringValue(last)>>

RECURSIVE ConvertToValuesReversed(_)
ConvertToValuesReversed(files) ==
  IF Len(files) = 0 THEN <<>>
  ELSE ConvertToValuesReversed(Tail(files)) \o <<StringValue(files[1])>>

RECURSIVE ConvertToValues(_)
\* Each file pushed, in order, as a string value.
ConvertToValues(files) ==
  IF Len(files) = 0 THEN <<>>
  ELSE <<StringValue(files[1])>> \o ConvertToValues(Tail(files))

NotFoundHelp(label) ==
  [label_name |-> GetUserVisibleName(label),
   text |-> "was not found. get_target_outputs() can only be used for targets previously defined in the current file.",
   type_name |-> ""]

MismatchHelp(label, item) ==
  [label_name |-> GetUserVisibleName(label), text |-> "refers to a",
   type_name |-> GetItemTypeName(item)]

UnsupportedHelp ==
  [label_name |-> <<>>,
   text |-> "Only these target types are supported by get_target_outputs.",
   type_name |-> ""]

Result(ret, err, touched) == [ret |-> ret, err |-> err, touched |-> touched]

\* The part of the function after the label is resolved: the collector
\* check, the scan, the dispatch on the output type and the conversion.
LookupAndCompute(sc, label, touched) ==
  IF ~sc.collector.present
  THEN Result(NoneValue, Err("No targets defined in this context.", NoHelp),
              touched \cup {"collector"})
  ELSE
    LET f == FindItem(sc.collector.items, label, 1)
        t == touched \cup {"collector", "scan"}
    IN CASE f.found = "mismatch" ->
              Result(NoneValue,
                     Err("Label does not refer to a target.",
                         MismatchHelp(label, f.item)), t)
         [] f.found = "none" ->
              Result(NoneValue,
                     Err("Target not found in this context.",
                         NotFoundHelp(label)), t)
         [] f.found = "target" ->
              IF IsSupported(f.item.output_type)
              THEN Result(ListValue(ConvertToValues(
                            GetOutputsAsSourceFiles(f.item))),
                          NoErr, t \cup {"outputs"})
              ELSE Result(NoneValue,
                          Err("Target is not an action, action_foreach, generated_file, or copy.",
                              UnsupportedHelp), t)

RunGetTargetOutputsCollectorFirst(sc, args) ==
  IF ~sc.collector.present
  THEN Result(NoneValue, Err("No targets defined in this context.", NoHelp),
              {"collector"})
  ELSE IF Len(args) # 1
  THEN Result(NoneValue, Err("Expected one argument.", NoHelp), {"collector"})
  ELSE LET r == Resolve(sc.source_dir, sc.toolchain, args[1])
       IN IF r.label.is_null
          THEN Result(NoneValue, r.err, {"collector", "resolve"})
          ELSE LookupAndCompute(sc, r.label, {"resolve"})

RunGetTargetOutputsEmptyContext(sc, args) ==
  IF Len(args) # 1
  THEN Result(NoneValue, Err("Expected one argument.", NoHelp), {})
  ELSE LET r == Resolve(sc.source_dir, sc.toolchain, args[1])
       IN IF r.label.is_null
          THEN Result(NoneValue, r.err, {"resolve"})
          ELSE LookupAndCompute(
                 [sc EXCEPT !.collector = [present |-> TRUE, items |-> <<>>]],
                 r.label, {"resolve"})

\* RunGetTargetOutputs: the value returned, the error set and the steps
\* that were attempted.
RunGetTargetOutputs(sc, args) ==
  IF Len(args) # 1
  THEN Result(NoneValue, Err("Expected one argument.", NoHelp), {})
  ELSE LET r == Resolve(sc.source_dir, sc.toolchain, args[1])
       IN IF r.label.is_null
          THEN Result(NoneValue, r.err, {"resolve"})
          ELSE LookupAndCompute(sc, r.label, {"resolve"})

----------------------------------------------------------------------------
\* One file's evaluation.

NoCall ==
  [called |-> FALSE, args |-> <<>>, at |-> 0,
   result |-> Result(NoneValue, NoErr, {})]

Init ==
  /\ scope \in {[source_dir |-> DirD, toolchain |-> DefaultToolchain,
                 collector |-> [present |-> p, items |-> <<>>]] :
                p \in BOOLEAN}
  /\ lastCall = NoCall

\* A declaration pushes its item onto the end of the item collector.
PushBack(item) ==
  /\ scope.collector.present
  /\ Len(scope.collector.items) < MaxItems
  /\ scope' = [scope EXCEPT !.collector.items = Append(@, item)]
  /\ UNCHANGED lastCall

CallDroppingItems(args) ==
  /\ lastCall' = [called |-> TRUE, args |-> args,
                  at |-> Len(scope.collector.items),
                  result |-> RunGetTargetOutputs(scope, args)]
  /\ scope' = [scope EXCEPT !.collector.items =
                 IF lastCall'.result.err.has_error THEN <<>> ELSE @]

\* A get_target_outputs(args) call at the current point of the evaluation.
Call(args) ==
  /\ lastCall' = [called |-> TRUE, args |-> args,
                  at |-> Len(scope.collector.items),
                  result |-> RunGetTargetOutputs(scope, args)]
  /\ UNCHANGED scope

Next ==
  \/ \E item \in Items : PushBack(item)
  \/ \E args \in ArgLists : Call(args)

Spec == Init /\ [][Next]_vars

TypeOK ==
  /\ scope.collector.present \in BOOLEAN
  /\ Len(scope.collector.items) <= MaxItems
  /\ \A i \in 1..Len(scope.collector.items) : scope.collector.items[i] \in Items
  /\ lastCall.called \in BOOLEAN

----------------------------------------------------------------------------
\* Vocabulary of the properties.

ArgumentCountError == "Expected one argument."

LabelSyntaxErrors ==
  {"Label is not a string.", "Label can't be empty.",
   "This doesn't look like a label."}

ContextError == "No targets defined in this context."

NotFoundError == "Target not found in this context."

TypeMismatchError == "Label does not refer to a target."

UnsupportedKindError ==
  "Target is not an action, action_foreach, generated_file, or copy."

\* The last call failed with the given message.
ErrIs(m) == lastCall.result.err.has_error /\ lastCall.result.err.message = m

\* The last call was made with exactly one argument that is a well-formed
\* label.
OneWellFormedArg ==
  /\ lastCall.called
  /\ Len(lastCall.args) = 1
  /\ ~Resolve(scope.source_dir, scope.toolchain, lastCall.args[1]).label.is_null

\* The label the last call asked for.
CallLabel ==
  Resolve(scope.source_dir, scope.toolchain, lastCall.args[1]).label

\* The items that had been declared when the last call was made.
Visible == SubSeq(scope.collector.items, 1, lastCall.at)

HasMatch(items, label) == \E i \in 1..Len(items) : items[i].label = label

\* The first item, in declaration order, with the label.
FirstMatch(items, label) ==
  items[CHOOSE i \in 1..Len(items) :
          /\ items[i].label = label
          /\ \A j \in 1..(i - 1) : items[j].label # label]

\* The last call had one well-formed argument and the lookup, over the
\* items declared before the call, found an item.
Found == OneWellFormedArg /\ scope.collector.present /\ HasMatch(Visible, CallLabel)

FoundItem == FirstMatch(Visible, CallLabel)

KindName(kind) ==
  CASE kind = "Config"    -> "config"
    [] kind = "Toolchain" -> "toolchain"
    [] kind = "Pool"      -> "pool"
    [] kind = "Target"    -> "target"

----------------------------------------------------------------------------
\* C1: a call with one well-formed label L and an existing collector fails
\* with "Target not found in this context." whenever no item with label L
\* was declared before the call, also when one is declared after it.
C1_DeclaredBeforeUse ==
  (OneWellFormedArg /\ scope.collector.present /\ ~HasMatch(Visible, CallLabel))
    => (ErrIs(NotFoundError) /\ lastCall.result.ret = NoneValue)

\* The call failed as not found and an item with its label was declared
\* afterwards.
C1_Witness ==
  /\ OneWellFormedArg /\ scope.collector.present
  /\ ~HasMatch(Visible, CallLabel)
  /\ ErrIs(NotFoundError)
  /\ \E i \in (lastCall.at + 1)..Len(scope.collector.items) :
       scope.collector.items[i].label = CallLabel

\* C2: for a found action, copy or generated_file target the call returns
\* the target's output list: same length, same elements, same order,
\* duplicates kept.
C2_ExplicitOutputsVerbatim ==
  (Found /\ FoundItem.kind = "Target" /\ FoundItem.output_type \in ExplicitKinds)
    => LET l == lastCall.result.ret.list_value
           o == FoundItem.outputs
       IN /\ ~lastCall.result.err.has_error
          /\ lastCall.result.ret.type = "LIST"
          /\ Len(l) = Len(o)
          /\ \A i \in 1..Len(o) :
               l[i].type = "STRING" /\ l[i].string_value = o[i][1].literal

\* An explicit list with a duplicate entry was returned with both entries.
C2_Witness ==
  /\ Found /\ FoundItem.kind = "Target"
  /\ FoundItem.output_type \in ExplicitKinds
  /\ FoundItem.outputs[1] = FoundItem.outputs[2]
  /\ Len(lastCall.result.ret.list_value) = 2
  /\ lastCall.result.ret.list_value[1] = lastCall.result.ret.list_value[2]

\* C3: for a found action_foreach target with m sources and n output
\* templates the call returns m * n paths, the path at (i - 1) * n + j being
\* the expansion of template j against source i; equal paths from different
\* sources are all kept.
C3_ForEachConcatenation ==
  (Found /\ FoundItem.kind = "Target" /\ FoundItem.output_type = "ACTION_FOREACH")
    => LET l == lastCall.result.ret.list_value
           o == FoundItem.outputs
           s == FoundItem.sources
       IN /\ ~lastCall.result.err.has_error
          /\ lastCall.result.ret.type = "LIST"
          /\ Len(l) = Len(s) * Len(o)
          /\ \A i \in 1..Len(s) : \A j \in 1..Len(o) :
               LET v == l[(i - 1) * Len(o) + j]
               IN /\ v.type = "STRING"
                  /\ v.string_value = ApplyPatternToSource(o[j], s[i])

\* Two different sources expanded to the same paths and all four paths of
\* the two templates were returned.
C3_Witness ==
  /\ Found /\ FoundItem.kind = "Target"
  /\ FoundItem.output_type = "ACTION_FOREACH"
  /\ Len(FoundItem.outputs) = 2 /\ Len(FoundItem.sources) = 2
  /\ FoundItem.sources[1] # FoundItem.sources[2]
  /\ Len(lastCall.result.ret.list_value) = 4
  /\ lastCall.result.ret.list_value[1] = lastCall.result.ret.list_value[3]
  /\ lastCall.result.ret.list_value[1] # lastCall.result.ret.list_value[2]

\* C4: when the item the label refers to (the item the scan finds: the first
\* declared with that label) is not a target, the call fails with "Label
\* does not refer to a target.", the help names that item's kind and no
\* list is returned.
C4_TypeMismatch ==
  (Found /\ FoundItem.kind \in NonTargetKinds)
    => /\ ErrIs(TypeMismatchError)
       /\ lastCall.result.err.help.type_name = KindName(FoundItem.kind)
       /\ lastCall.result.err.help.label_name = GetUserVisibleName(CallLabel)
       /\ lastCall.result.ret = NoneValue

\* The call found a pool and failed naming it.
C4_Witness ==
  /\ Found /\ FoundItem.kind = "Pool"
  /\ ErrIs(TypeMismatchError)
  /\ lastCall.result.err.help.type_name = "pool"

FirstFailingStep ==
  IF Len(lastCall.args) # 1 THEN {ArgumentCountError}
  ELSE IF CallLabel.is_null THEN LabelSyntaxErrors
  ELSE IF ~scope.collector.present THEN {ContextError}
  ELSE IF ~HasMatch(Visible, CallLabel) THEN {NotFoundError}
  ELSE IF FoundItem.kind # "Target" THEN {TypeMismatchError}
  ELSE IF FoundItem.output_type \notin (ExplicitKinds \cup {"ACTION_FOREACH"})
  THEN {UnsupportedKindError}
  ELSE {""}

\* C7: the error of a call is that of the first failing step; a call with
\* no or several arguments fails with "Expected one argument." whatever the
\* scope, with no label resolved and no collector consulted, and a bad label
\* fails before the collector is consulted.
C7_ErrorOrder ==
  lastCall.called =>
    /\ lastCall.result.err.message \in FirstFailingStep
    /\ lastCall.result.err.has_error <=> (FirstFailingStep # {""})
    /\ Len(lastCall.args) # 1 => lastCall.result.touched = {}
    /\ (Len(lastCall.args) = 1 /\ CallLabel.is_null)
         => lastCall.result.touched = {"resolve"}
    /\ lastCall.result.err.has_error => lastCall.result.ret = NoneValue

\* A call with a wrong argument count in a scope with no collector: the
\* first and the third step would both fail, the first is reported.
C7_Witness ==
  /\ lastCall.called
  /\ Len(lastCall.args) # 1
  /\ ~scope.collector.present
  /\ ErrIs(ArgumentCountError)
  /\ lastCall.result.touched = {}

\* C8: with one well-formed label, the call fails with "No targets defined
\* in this context." exactly when the scope has no item collector; with a
\* collector that is empty or lacks the label it fails as not found.
C8_ContextVersusNotFound ==
  OneWellFormedArg =>
    /\ ErrIs(ContextError) <=> ~scope.collector.present
    /\ (scope.collector.present /\ ~HasMatch(Visible, CallLabel))
         => (ErrIs(NotFoundError) /\ ~ErrIs(ContextError))

\* A well-formed query in a scope with no collector failed as a context
\* error.
C8_Witness ==
  /\ OneWellFormedArg
  /\ ~scope.collector.present
  /\ ErrIs(ContextError)

\* C9: a call leaves the scope, and with it the item collector (length,
\* order and items) and every target in it, unchanged, whatever its outcome.
C9_PureRead == [][(lastCall' # lastCall) => (scope' = scope)]_vars

\* A call was made on a collector holding items, which are all still there.
C9_Witness ==
  /\ lastCall.called
  /\ lastCall.at >= 1
  /\ Len(scope.collector.items) = lastCall.at
  /\ ~lastCall.result.err.has_error

\* C10: once a query for L has returned anything but not-found or the
\* context error, the first item with label L is the one it found and the
\* same query made now, after any later declarations, gives the same result.
C10_FirstMatchStable ==
  (OneWellFormedArg /\ ~ErrIs(NotFoundError) /\ ~ErrIs(ContextError))
    => /\ HasMatch(scope.collector.items, CallLabel)
       /\ FirstMatch(scope.collector.items, CallLabel) = FoundItem
       /\ RunGetTargetOutputs(scope, lastCall.args) = lastCall.result

\* The query found a non-target and a target with the same label was
\* declared afterwards.
C10_Witness ==
  /\ OneWellFormedArg
  /\ ErrIs(TypeMismatchError)
  /\ \E i \in (lastCall.at + 1)..Len(scope.collector.items) :
       /\ scope.collector.items[i].label = CallLabel
       /\ scope.collector.items[i].kind = "Target"
       /\ scope.collector.items[i].output_type = "ACTION"

====
